---------------------------- MODULE Spec2Model ----------------------------
(***************************************************************************)
(* The POST /generate handler of the ONNX model generator (src/main.py):   *)
(* request validation, the scoped temporary directory, the supervised      *)
(* conversion subprocess with its 1800 s deadline, the archive step and    *)
(* the transfer of the response by the WSGI server.                        *)
(*                                                                         *)
(* Text values (Python str) are sequences of chunks, so that concatenation *)
(* is \o and str.replace acts on the chunks: "org/m" is <<"org","/","m">>, *)
(* the empty string is <<>>.                                               *)
(***************************************************************************)
EXTENDS Integers, Sequences, FiniteSets, TLC

VARIABLES
    pc,          \* position of the handler: idle, validate, mktemp, spawn, wait,
                 \* check, archive, send_file, with_exit, returned, sent
    req,         \* the request being handled
    resp,        \* the value generate_model returned (NoResponse before)
    caught,      \* str(e) of the exception caught at line 161, or NoText
    tempDir,     \* the TemporaryDirectory of line 78 exists on disk
    output,      \* temp_dir/model_output: Missing, AFile, or the set of files in it
    archive,     \* temp_dir/<archive_name>.zip: Missing or the set of members
    handle,      \* the open file object held by the response: Missing or its content
    sent,        \* the body the client received: Missing or its content
    command,     \* argv of the child (<<>> before it is built)
    env,         \* the environment handed to the child
    environ,     \* os.environ of the server process
    environ0,    \* os.environ as it was when the server started
    child,       \* none, running, zombie (exited, not yet waited for), reaped
    exitCode,    \* the exit code of the child (-1: none yet)
    elapsed,     \* seconds the handler has waited for the child
    timedOut,    \* subprocess.run raised TimeoutExpired for this request
    tempCreated, \* a temporary directory was created for this request
    spawned,     \* a child process was spawned for this request
    nreq         \* requests received so far

vars == <<pc, req, resp, caught, tempDir, output, archive, handle, sent, command,
          env, environ, environ0, child, exitCode, elapsed, timedOut,
          tempCreated, spawned, nreq>>

----------------------------------------------------------------------------
(* Bounds of the model *)

MaxRequests == 2
TickSeconds == 600

(* Program constants *)

TIMEOUT == 1800

----------------------------------------------------------------------------
(* Values *)

Str(s) == <<s>>
ABSENT == <<"<absent>">>      \* Python None: the key is not in the JSON object
UNSET == <<"<unset>">>        \* an environment variable that is not set
NoText == <<"<none>">>
Missing == {"<missing>"}      \* a path that does not exist
AFile == {"<file>"}           \* a path that is a regular file
Files == {"model.onnx", "genai_config.json"}

Range(s) == {s[i] : i \in 1..Len(s)}

SUPPORTED_PRECISIONS == {Str("fp16"), Str("fp32"), Str("int4"), Str("int8")}

SUPPORTED_EXECUTION_PROVIDERS ==
    {Str("cpu"), Str("cuda"), Str("rocm"), Str("dml"), Str("webgpu"), Str("NvTensorRtRtx")}

\* a list that also admits int8 on cpu
ValidCombinationsWithInt8 ==
    { <<Str("fp32"), Str("cpu")>>, <<Str("fp32"), Str("cuda")>>,
      <<Str("fp16"), Str("cuda")>>, <<Str("fp16"), Str("dml")>>,
      <<Str("fp16"), Str("NvTensorRtRtx")>>,
      <<Str("bf16"), Str("cuda")>>, <<Str("int8"), Str("cpu")>>,
      <<Str("int4"), Str("cpu")>>, <<Str("int4"), Str("cuda")>>,
      <<Str("int4"), Str("dml")>>, <<Str("int4"), Str("webgpu")>> }

VALID_COMBINATIONS ==
    { <<Str("fp32"), Str("cpu")>>, <<Str("fp32"), Str("cuda")>>,
      <<Str("fp16"), Str("cuda")>>, <<Str("fp16"), Str("dml")>>,
      <<Str("fp16"), Str("NvTensorRtRtx")>>,
      <<Str("bf16"), Str("cuda")>>,
      <<Str("int4"), Str("cpu")>>, <<Str("int4"), Str("cuda")>>,
      <<Str("int4"), Str("dml")>>, <<Str("int4"), Str("webgpu")>> }

(* The requests a client can send *)

BodyKinds == {"not_json", "malformed", "not_object", "object"}
ModelNames == {<<>>, <<"gpt2">>, <<"org", "/", "m">>}
Precisions == {ABSENT, Str("fp16"), Str("fp32"), Str("int4"), Str("int8"),
               Str("bf16"), Str("fp64")}
Providers == {ABSENT, Str("tpu")} \cup SUPPORTED_EXECUTION_PROVIDERS
Tokens == {ABSENT, <<>>, Str("hf_secret")}

Requests ==
    { [body |-> b, modelKind |-> "absent", model |-> ABSENT, precision |-> ABSENT,
       execution_provider |-> ABSENT, token |-> ABSENT] :
          b \in BodyKinds \ {"object"} }
    \cup
    { [body |-> "object", modelKind |-> "absent", model |-> ABSENT, precision |-> p,
       execution_provider |-> e, token |-> t] :
          p \in Precisions, e \in Providers, t \in Tokens }
    \cup
    { [body |-> "object", modelKind |-> "str", model |-> m, precision |-> p,
       execution_provider |-> e, token |-> t] :
          m \in ModelNames, p \in Precisions, e \in Providers, t \in Tokens }
    \cup
    { [body |-> "object", modelKind |-> "num", model |-> Str("7"), precision |-> p,
       execution_provider |-> e, token |-> t] :
          p \in Precisions, e \in Providers, t \in Tokens }

NoRequest ==
    [body |-> "none", modelKind |-> "absent", model |-> ABSENT, precision |-> ABSENT,
     execution_provider |-> ABSENT, token |-> ABSENT]

(* The environment of the server process *)

EnvVars == {"PATH", "HF_TOKEN", "HUGGING_FACE_HUB_TOKEN", "HF_HUB_DISABLE_TELEMETRY",
            "TRANSFORMERS_OFFLINE", "HF_HUB_OFFLINE"}

ServerEnvs ==
    { [v \in EnvVars |-> IF v = "PATH" THEN Str("/usr/bin") ELSE UNSET],
      [v \in EnvVars |-> IF v = "PATH" THEN Str("/usr/bin")
                         ELSE IF v = "HF_TOKEN" THEN Str("hf_server") ELSE UNSET] }

----------------------------------------------------------------------------
(* Responses *)

NoDetail == <<>>

Json(status, error, detail, stdout) ==
    [status |-> status, error |-> error, detail |-> detail, stdout |-> stdout,
     attachment |-> NoDetail]

NoResponse == Json(0, "", NoDetail, NoDetail)

\* line 163: the body carries str(e)
UnexpectedError(text) == Json(500, "Internal server error: ", text, NoDetail)

\* lines 188-191: the application's handler of an error that escapes a view
internal_error == Json(500, "Internal server error", NoDetail, NoDetail)

\* Python truth of a request value: None and "" are false
Truthy(v) == v # ABSENT /\ v # <<>>

\* params.get(key, default)
GetOr(v, default) == IF v = ABSENT THEN default ELSE v

Precision(r) == GetOr(r.precision, Str("fp32"))
Provider(r) == GetOr(r.execution_provider, Str("cpu"))

ModelTruthy(r) == r.modelKind = "num" \/ (r.modelKind = "str" /\ r.model # <<>>)

(* Lines 44-73. What validation does with a request: "return" a 400, "raise" *)
(* (caught at line 161), or "pass" on to line 75.                           *)
Return(r) == [result |-> "return", resp |-> r, text |-> NoText]
Raise(text) == [result |-> "raise", resp |-> NoResponse, text |-> text]
Pass == [result |-> "pass", resp |-> NoResponse, text |-> NoText]

\* a validation that looks at the precision before it looks at the model
ValidationPrecisionFirst(r) ==
    IF r.body = "not_json"
    THEN Return(Json(400, "Content-Type must be application/json", NoDetail, NoDetail))
    ELSE IF r.body = "malformed"
    THEN Raise(Str("400 Bad Request: Failed to decode JSON object"))
    ELSE IF r.body = "not_object"
    THEN Raise(Str("'list' object has no attribute 'get'"))
    ELSE IF Precision(r) \notin SUPPORTED_PRECISIONS
    THEN Return(Json(400, "Unsupported precision: ", Precision(r), NoDetail))
    ELSE IF ~ModelTruthy(r)
    THEN Return(Json(400, "model parameter is required", NoDetail, NoDetail))
    ELSE IF Provider(r) \notin SUPPORTED_EXECUTION_PROVIDERS
    THEN Return(Json(400, "Unsupported execution_provider: ", Provider(r), NoDetail))
    ELSE IF <<Precision(r), Provider(r)>> \notin VALID_COMBINATIONS
    THEN Return(Json(400, "Invalid combination: ",
                     Precision(r) \o Str(" + ") \o Provider(r), NoDetail))
    ELSE Pass

Validation(r) ==
    IF r.body = "not_json"
    THEN Return(Json(400, "Content-Type must be application/json", NoDetail, NoDetail))
    ELSE IF r.body = "malformed"
    THEN Raise(Str("400 Bad Request: Failed to decode JSON object"))
    ELSE IF r.body = "not_object"
    THEN Raise(Str("'list' object has no attribute 'get'"))
    ELSE IF ~ModelTruthy(r)
    THEN Return(Json(400, "model parameter is required", NoDetail, NoDetail))
    ELSE IF Precision(r) \notin SUPPORTED_PRECISIONS
    THEN Return(Json(400, "Unsupported precision: ", Precision(r), NoDetail))
    ELSE IF Provider(r) \notin SUPPORTED_EXECUTION_PROVIDERS
    THEN Return(Json(400, "Unsupported execution_provider: ", Provider(r), NoDetail))
    ELSE IF <<Precision(r), Provider(r)>> \notin VALID_COMBINATIONS
    THEN Return(Json(400, "Invalid combination: ",
                     Precision(r) \o Str(" + ") \o Provider(r), NoDetail))
    ELSE Pass

----------------------------------------------------------------------------
(* Lines 79-102: the command line and the environment of the child *)

OutputPath == Str("/app/tmp/tmpdir/model_output")

\* a command line that hands the token to the tool as an argument
CommandWithToken(r) ==
    << Str("python"), Str("-m"), Str("onnxruntime_genai.models.builder"),
       Str("--model"), r.model,
       Str("--precision"), Precision(r),
       Str("--execution_provider"), Provider(r),
       Str("--output"), OutputPath,
       Str("--token"), r.token >>

Command(r) ==
    << Str("python"), Str("-m"), Str("onnxruntime_genai.models.builder"),
       Str("--model"), r.model,
       Str("--precision"), Precision(r),
       Str("--execution_provider"), Provider(r),
       Str("--output"), OutputPath >>

\* lines 94-102: a copy of os.environ with the token, or the download settings
ChildEnv(base, token) ==
    IF Truthy(token)
    THEN [v \in EnvVars |->
            IF v \in {"HF_TOKEN", "HUGGING_FACE_HUB_TOKEN"} THEN token ELSE base[v]]
    ELSE [v \in EnvVars |->
            IF v = "HF_HUB_DISABLE_TELEMETRY" THEN Str("1")
            ELSE IF v \in {"TRANSFORMERS_OFFLINE", "HF_HUB_OFFLINE"} THEN Str("0")
            ELSE base[v]]

\* os.environ after lines 94-102: env is a copy, the assignments do not reach it
EnvironAfterCopy(base, token) == base

NoEnv == [v \in EnvVars |-> UNSET]

\* line 136: model_name.replace('/', '_')
Replace(s, old, new) == [i \in 1..Len(s) |-> IF s[i] = old THEN new ELSE s[i]]

ArchiveName(r) ==
    Replace(r.model, "/", "_") \o Str("_") \o Precision(r) \o Str("_") \o Provider(r)

\* a check that only asks whether the path exists
OutputEmptyExistsOnly(o) == o = Missing

\* line 131: not os.path.exists(output_path) or not os.listdir(output_path)
OutputEmpty(o) == o = Missing \/ o = {}

\* a response that opens the file only when the body is sent
OpenFileLazily(a) == Missing

\* line 150: send_file opens the archive and the response keeps the open file
OpenFile(a) == a

\* a timeout that leaves the child alone
LeaveRunning(c) == c

\* subprocess.run on TimeoutExpired: process.kill(), process.wait(), re-raise
KillAndWait(c) == "reaped"

TimeoutResponse ==
    Json(408, "Model generation timed out (30 minutes limit)", NoDetail, NoDetail)

FailedResponse(stderr, stdout) == Json(500, "Model generation failed", stderr, stdout)

EmptyOutputResponse ==
    Json(500, "No output generated from model conversion", NoDetail, NoDetail)

ArchiveMissingResponse == Json(500, "Failed to create output archive", NoDetail, NoDetail)

ArchiveRaisedResponse(text) == Json(500, "Archive creation failed: ", text, NoDetail)

FileResponse(r) ==
    [status |-> 200, error |-> "", detail |-> NoDetail, stdout |-> NoDetail,
     attachment |-> ArchiveName(r) \o Str(".zip")]

JsonBody == {"<json>"}

----------------------------------------------------------------------------
(* The handler, step by step *)

\* a directory made with mkdtemp and never removed
ExitTempDirKeepsTree ==
    /\ tempDir' = tempDir
    /\ output' = output
    /\ archive' = archive

\* TemporaryDirectory.__exit__ (the with block of line 78 is left): the directory
\* and everything under it is removed
ExitTempDir ==
    /\ tempDir' = FALSE
    /\ output' = Missing
    /\ archive' = Missing

\* the handler returns r
Respond(r) ==
    /\ resp' = r
    /\ pc' = "returned"

\* lines 161-163: the outer except clause
Except(text) ==
    /\ caught' = text
    /\ Respond(UnexpectedError(text))

Init ==
    /\ pc = "idle"
    /\ req = NoRequest
    /\ resp = NoResponse
    /\ caught = NoText
    /\ tempDir = FALSE
    /\ output = Missing
    /\ archive = Missing
    /\ handle = Missing
    /\ sent = Missing
    /\ command = <<>>
    /\ env = NoEnv
    /\ environ \in ServerEnvs
    /\ environ0 = environ
    /\ child = "none"
    /\ exitCode = -1
    /\ elapsed = 0
    /\ timedOut = FALSE
    /\ tempCreated = FALSE
    /\ spawned = FALSE
    /\ nreq = 0

\* a POST /generate arrives (the server handles one request after the other)
Receive ==
    /\ pc = "idle"
    /\ nreq < MaxRequests
    /\ \E r \in Requests : req' = r
    /\ pc' = "validate"
    /\ nreq' = nreq + 1
    /\ UNCHANGED <<resp, caught, tempDir, output, archive, handle, sent, command, env,
                   environ, environ0, child, exitCode, elapsed, timedOut, tempCreated,
                   spawned>>

\* a handler that opens the temporary directory before it validates
ValidateInTempDir ==
    /\ pc = "validate"
    /\ tempCreated' = TRUE
    /\ LET v == Validation(req) IN
         CASE v.result = "return" ->
                  Respond(v.resp) /\ ExitTempDir /\ UNCHANGED caught
           [] v.result = "raise" -> Except(v.text) /\ ExitTempDir
           [] OTHER -> /\ pc' = "spawn"
                       /\ tempDir' = TRUE
                       /\ UNCHANGED <<resp, caught, output, archive>>
    /\ UNCHANGED <<req, handle, sent, command, env, environ, environ0, child,
                   exitCode, elapsed, timedOut, spawned, nreq>>

\* lines 42-75
Validate ==
    /\ pc = "validate"
    /\ LET v == Validation(req) IN
         CASE v.result = "return" -> Respond(v.resp) /\ UNCHANGED caught
           [] v.result = "raise" -> Except(v.text)
           [] OTHER -> pc' = "mktemp" /\ UNCHANGED <<resp, caught>>
    /\ UNCHANGED <<req, tempDir, output, archive, handle, sent, command, env, environ,
                   environ0, child, exitCode, elapsed, timedOut, tempCreated, spawned,
                   nreq>>

\* line 78: the temporary directory is created
EnterTempDir ==
    /\ pc = "mktemp"
    /\ tempDir' = TRUE
    /\ tempCreated' = TRUE
    /\ pc' = "spawn"
    /\ UNCHANGED <<req, resp, caught, output, archive, handle, sent, command, env,
                   environ, environ0, child, exitCode, elapsed, timedOut, spawned, nreq>>

\* line 78: mkdtemp raises (no space, no permission); nothing was created
EnterTempDirFails ==
    /\ pc = "mktemp"
    /\ Except(Str("[Errno 28] No space left on device"))
    /\ UNCHANGED <<req, tempDir, output, archive, handle, sent, command, env, environ,
                   environ0, child, exitCode, elapsed, timedOut, tempCreated, spawned,
                   nreq>>

\* lines 79-113: the command and the environment are built and the child is
\* started; ' '.join(command) of line 91 raises TypeError when the model is
\* not a string
Spawn ==
    /\ pc = "spawn"
    /\ IF req.modelKind # "str"
       THEN /\ ExitTempDir
            /\ Except(Str("sequence item 4: expected str instance, int found"))
            /\ UNCHANGED <<command, env, environ, child, spawned>>
       ELSE /\ command' = Command(req)
            /\ env' = ChildEnv(environ, req.token)
            /\ environ' = EnvironAfterCopy(environ, req.token)
            /\ child' = "running"
            /\ spawned' = TRUE
            /\ pc' = "wait"
            /\ UNCHANGED <<resp, caught, tempDir, output, archive>>
    /\ UNCHANGED <<req, handle, sent, environ0, exitCode, elapsed, timedOut,
                   tempCreated, nreq>>

\* line 106: Popen raises (the interpreter cannot be executed); no child exists
SpawnFails ==
    /\ pc = "spawn"
    /\ req.modelKind = "str"
    /\ command' = Command(req)
    /\ env' = ChildEnv(environ, req.token)
    /\ environ' = EnvironAfterCopy(environ, req.token)
    /\ ExitTempDir
    /\ Except(Str("[Errno 2] No such file or directory: 'python'"))
    /\ UNCHANGED <<req, handle, sent, environ0, child, exitCode, elapsed, timedOut,
                   tempCreated, spawned, nreq>>

----------------------------------------------------------------------------
(* The conversion tool (the child process) and the clock, while line 106 waits *)

ChildVars == <<pc, req, resp, caught, tempDir, archive, handle, sent, command, env,
               environ, environ0, child, exitCode, elapsed, timedOut, tempCreated,
               spawned, nreq>>

\* the tool creates the directory named by --output
ChildCreatesOutputDir ==
    /\ child = "running"
    /\ output = Missing
    /\ output' = {}
    /\ UNCHANGED ChildVars

\* the tool writes a regular file at the path named by --output
ChildCreatesOutputFile ==
    /\ child = "running"
    /\ output = Missing
    /\ output' = AFile
    /\ UNCHANGED ChildVars

\* the tool writes a file into the output directory
ChildWritesFile ==
    /\ child = "running"
    /\ output \subseteq Files
    /\ \E f \in Files \ output : output' = output \cup {f}
    /\ UNCHANGED ChildVars

\* the tool exits within the deadline, with code 0 or 1
ChildExits ==
    /\ child = "running"
    /\ elapsed < TIMEOUT
    /\ \E code \in {0, 1} : exitCode' = code
    /\ child' = "zombie"
    /\ UNCHANGED <<pc, req, resp, caught, tempDir, output, archive, handle, sent,
                   command, env, environ, environ0, elapsed, timedOut, tempCreated,
                   spawned, nreq>>

\* time passes while the child runs
Tick ==
    /\ pc = "wait"
    /\ child = "running"
    /\ elapsed < TIMEOUT
    /\ elapsed' = elapsed + TickSeconds
    /\ UNCHANGED <<pc, req, resp, caught, tempDir, output, archive, handle, sent,
                   command, env, environ, environ0, child, exitCode, timedOut,
                   tempCreated, spawned, nreq>>

ChildStderr == Str("Traceback (most recent call last)")
ChildStdout == Str("Loading model")

\* lines 106-128: subprocess.run returns or raises CalledProcessError (check=True)
RunReturns ==
    /\ pc = "wait"
    /\ child = "zombie"
    /\ child' = "reaped"
    /\ IF exitCode = 0
       THEN /\ pc' = "check"
            /\ UNCHANGED <<resp, tempDir, output, archive>>
       ELSE /\ ExitTempDir
            /\ Respond(FailedResponse(ChildStderr, ChildStdout))
    /\ UNCHANGED <<req, caught, handle, sent, command, env, environ, environ0,
                   exitCode, elapsed, timedOut, tempCreated, spawned, nreq>>

\* lines 118-120: the deadline passes with the child still running;
\* subprocess.run kills it, waits for it and raises TimeoutExpired
RunTimesOut ==
    /\ pc = "wait"
    /\ child = "running"
    /\ elapsed >= TIMEOUT
    /\ child' = KillAndWait(child)
    /\ exitCode' = -9
    /\ timedOut' = TRUE
    /\ ExitTempDir
    /\ Respond(TimeoutResponse)
    /\ UNCHANGED <<req, caught, handle, sent, command, env, environ, environ0,
                   elapsed, tempCreated, spawned, nreq>>

\* lines 130-133; os.listdir raises NotADirectoryError on a regular file
CheckOutput ==
    /\ pc = "check"
    /\ IF output = AFile
       THEN /\ ExitTempDir
            /\ Except(Str("[Errno 20] Not a directory"))
       ELSE IF OutputEmpty(output)
       THEN /\ ExitTempDir
            /\ Respond(EmptyOutputResponse)
            /\ UNCHANGED caught
       ELSE /\ pc' = "archive"
            /\ UNCHANGED <<resp, caught, tempDir, output, archive>>
    /\ UNCHANGED <<req, handle, sent, command, env, environ, environ0, child,
                   exitCode, elapsed, timedOut, tempCreated, spawned, nreq>>

\* line 140: shutil.make_archive writes the zip file
MakeArchive ==
    /\ pc = "archive"
    /\ archive' = output
    /\ pc' = "send_file"
    /\ UNCHANGED <<req, resp, caught, tempDir, output, handle, sent, command, env,
                   environ, environ0, child, exitCode, elapsed, timedOut, tempCreated,
                   spawned, nreq>>

\* line 140 returns and no file is at archive_path.zip
MakeArchiveNoFile ==
    /\ pc = "archive"
    /\ pc' = "send_file"
    /\ UNCHANGED <<req, resp, caught, tempDir, output, archive, handle, sent, command,
                   env, environ, environ0, child, exitCode, elapsed, timedOut,
                   tempCreated, spawned, nreq>>

\* lines 157-159: shutil.make_archive raises
MakeArchiveRaises ==
    /\ pc = "archive"
    /\ ExitTempDir
    /\ Respond(ArchiveRaisedResponse(Str("[Errno 28] No space left on device")))
    /\ UNCHANGED <<req, caught, handle, sent, command, env, environ, environ0, child,
                   exitCode, elapsed, timedOut, tempCreated, spawned, nreq>>

\* lines 143-155: the archive is checked and send_file builds the response
SendFile ==
    /\ pc = "send_file"
    /\ IF archive = Missing
       THEN /\ ExitTempDir
            /\ Respond(ArchiveMissingResponse)
            /\ UNCHANGED handle
       ELSE /\ handle' = OpenFile(archive)
            /\ resp' = FileResponse(req)
            /\ pc' = "with_exit"
            /\ UNCHANGED <<tempDir, output, archive>>
    /\ UNCHANGED <<req, caught, sent, command, env, environ, environ0, child,
                   exitCode, elapsed, timedOut, tempCreated, spawned, nreq>>

\* line 150: the return leaves the with block of line 78
ReturnFile ==
    /\ pc = "with_exit"
    /\ ExitTempDir
    /\ pc' = "returned"
    /\ UNCHANGED <<req, resp, caught, handle, sent, command, env, environ, environ0,
                   child, exitCode, elapsed, timedOut, tempCreated, spawned, nreq>>

\* the WSGI server sends the response the handler returned: a JSON body, or the
\* content read from the open file, which is then closed
SendBody ==
    /\ pc = "returned"
    /\ sent' = IF resp.status = 200 THEN handle ELSE JsonBody
    /\ handle' = Missing
    /\ pc' = "sent"
    /\ UNCHANGED <<req, resp, caught, tempDir, output, archive, command, env, environ,
                   environ0, child, exitCode, elapsed, timedOut, tempCreated, spawned,
                   nreq>>

\* the request is over: its objects (request, response, locals) are dropped
Teardown ==
    /\ pc = "sent"
    /\ pc' = "idle"
    /\ req' = NoRequest
    /\ resp' = NoResponse
    /\ caught' = NoText
    /\ sent' = Missing
    /\ command' = <<>>
    /\ env' = NoEnv
    /\ child' = "none"
    /\ exitCode' = -1
    /\ elapsed' = 0
    /\ timedOut' = FALSE
    /\ tempCreated' = FALSE
    /\ spawned' = FALSE
    /\ UNCHANGED <<tempDir, output, archive, handle, environ, environ0, nreq>>

Next ==
    \/ Receive
    \/ Validate
    \/ EnterTempDir
    \/ EnterTempDirFails
    \/ Spawn
    \/ SpawnFails
    \/ ChildCreatesOutputDir
    \/ ChildCreatesOutputFile
    \/ ChildWritesFile
    \/ ChildExits
    \/ Tick
    \/ RunReturns
    \/ RunTimesOut
    \/ CheckOutput
    \/ MakeArchive
    \/ MakeArchiveNoFile
    \/ MakeArchiveRaises
    \/ SendFile
    \/ ReturnFile
    \/ SendBody
    \/ Teardown

Spec == Init /\ [][Next]_vars

----------------------------------------------------------------------------
(* Properties *)

Returned == pc \in {"returned", "sent"}

\* the (precision, execution_provider) pair the request asks for
Pair == <<Precision(req), Provider(req)>>

\* the ten pairs of the valid-combination list, as the specification states them
ListedPairs ==
    { <<Str("fp32"), Str("cpu")>>, <<Str("fp32"), Str("cuda")>>,
      <<Str("fp16"), Str("cuda")>>, <<Str("fp16"), Str("dml")>>,
      <<Str("fp16"), Str("NvTensorRtRtx")>>, <<Str("bf16"), Str("cuda")>>,
      <<Str("int4"), Str("cpu")>>, <<Str("int4"), Str("cuda")>>,
      <<Str("int4"), Str("dml")>>, <<Str("int4"), Str("webgpu")>> }

DeclaredPrecisions == {Str("fp16"), Str("fp32"), Str("int4"), Str("int8"), Str("bf16")}
DeclaredProviders ==
    {Str("cpu"), Str("cuda"), Str("rocm"), Str("dml"), Str("webgpu"), Str("NvTensorRtRtx")}

\* a JSON object whose model field is a non-empty value
HasModel == req.body = "object" /\ req.modelKind # "absent" /\ req.model # <<>>

\* C1: once generate_model has returned, however the request ended, no temporary
\* directory, output directory or archive file of the request exists
C1_NoTempFilesRemain ==
    (Returned \/ pc = "idle") =>
        (~tempDir /\ output = Missing /\ archive = Missing)

\* C1 witness: a successful request, whose directory, output and archive existed,
\* has returned
C1_Witness ==
    /\ pc = "returned"
    /\ resp.status = 200
    /\ tempCreated
    /\ handle = Files
    /\ ~tempDir

\* C2: when the child is still running at the deadline of 1800 seconds the handler
\* returns 408 and the child has been killed and waited for
C2_TimeoutReturns408 ==
    /\ timedOut => elapsed >= TIMEOUT
    /\ (Returned /\ timedOut) => (resp.status = 408 /\ child = "reaped")
    /\ Returned => child # "running"

\* C2 witness: a request whose child ran into the deadline has returned
C2_Witness ==
    /\ pc = "returned"
    /\ timedOut
    /\ spawned
    /\ elapsed >= TIMEOUT

\* C3 as stated: every pair outside the list, with a model given, is answered by a
\* 400 that names an invalid combination
C3_Original ==
    (Returned /\ HasModel /\ Pair \notin ListedPairs) =>
        (resp.status = 400 /\ resp.error = "Invalid combination: ")

\* C3 amended: every pair outside the list, with a model given, is answered by a
\* 400; it names an invalid combination exactly when the precision is one of fp16,
\* fp32, int4, int8 and the provider one of the six supported ones, and otherwise
\* names the unsupported precision or, the precision being supported, the
\* unsupported provider
C3_InvalidPairRejected ==
    (Returned /\ HasModel /\ Pair \notin ListedPairs) =>
        /\ resp.status = 400
        /\ resp.error =
             IF Pair[1] \notin {Str("fp16"), Str("fp32"), Str("int4"), Str("int8")}
             THEN "Unsupported precision: "
             ELSE IF Pair[2] \notin DeclaredProviders
             THEN "Unsupported execution_provider: "
             ELSE "Invalid combination: "

\* C3 witness: int8 with cpu, each supported on its own, is rejected as a combination
C3_Witness ==
    /\ pc = "returned"
    /\ HasModel
    /\ Pair = <<Str("int8"), Str("cpu")>>
    /\ resp.status = 400
    /\ resp.error = "Invalid combination: "

\* C4: over the declared precisions and providers, validation lets a pair pass
\* exactly when it is one of the ten listed pairs
C4_ExactlyTenPass ==
    (HasModel /\ Pair[1] \in DeclaredPrecisions /\ Pair[2] \in DeclaredProviders) =>
        /\ (Returned /\ resp.status = 400) => Pair \notin ListedPairs
        /\ pc = "mktemp" => Pair \in ListedPairs

\* C5: a JSON object without a model, or with an empty one, is answered by a 400
\* that names the missing parameter, whatever the other fields are
C5_MissingModel ==
    (Returned /\ req.body = "object" /\ (req.modelKind = "absent" \/ req.model = <<>>)) =>
        (resp.status = 400 /\ resp.error = "model parameter is required")

\* C5 witness: a request without model, with an unsupported precision and a token
C5_Witness ==
    /\ pc = "returned"
    /\ req.body = "object"
    /\ req.modelKind = "absent"
    /\ req.precision = Str("fp64")
    /\ req.execution_provider = Str("tpu")
    /\ req.token = Str("hf_secret")
    /\ resp.status = 400

\* C6: when the tool exited 0 and the output path is missing or an empty directory,
\* the handler returns 500 "no output generated", which is not the answer to a
\* non-zero exit, no archive is made and the body sent is the JSON error
C6_EmptyOutput ==
    [][ /\ (pc = "check" /\ output \in {Missing, {}} /\ pc' # "check") =>
              /\ pc' = "returned"
              /\ exitCode = 0
              /\ resp'.status = 500
              /\ resp'.error = "No output generated from model conversion"
              /\ resp'.error # FailedResponse(ChildStderr, ChildStdout).error
              /\ archive' = Missing
              /\ handle' = Missing
        /\ (pc = "returned" /\ resp = EmptyOutputResponse /\ pc' = "sent") =>
              sent' = JsonBody
      ]_vars

\* C6 witness: the tool exited 0 and the handler answered "no output generated"
C6_Witness ==
    /\ pc = "sent"
    /\ exitCode = 0
    /\ spawned
    /\ resp = EmptyOutputResponse
    /\ sent = JsonBody

\* C7: an exception caught by the handler's outer except clause is answered by the
\* generic 500 body, without the text of the exception
C7_GenericMessageOnly ==
    (Returned /\ caught # NoText) => resp = internal_error

\* C8: a token never is an argument of the child; the child's environment carries
\* it in HF_TOKEN and HUGGING_FACE_HUB_TOKEN only, and os.environ stays as it was
C8_TokenOnlyInChildEnv ==
    /\ environ = environ0
    /\ (spawned /\ Truthy(req.token)) =>
          /\ req.token \notin Range(command)
          /\ Str("--token") \notin Range(command)
          /\ env["HF_TOKEN"] = req.token
          /\ env["HUGGING_FACE_HUB_TOKEN"] = req.token
          /\ \A v \in EnvVars \ {"HF_TOKEN", "HUGGING_FACE_HUB_TOKEN"} :
                env[v] = environ0[v] /\ env[v] # req.token
          /\ \A v \in EnvVars : environ[v] # req.token

\* C8 witness: a child runs for a request that carries a token
C8_Witness ==
    /\ child = "running"
    /\ spawned
    /\ req.token = Str("hf_secret")
    /\ Len(command) > 0

\* C9 as stated: while the body of a successful response has not been sent, the
\* archive and the temporary directory that holds it exist
C9_Original ==
    (resp.status = 200 /\ sent = Missing) => (archive # Missing /\ tempDir)

\* C9 amended: on a successful request the archive is opened by send_file before it
\* is reclaimed; the directory and the archive are deleted when the handler
\* returns, before the body is sent, and the body sent is the archive's content,
\* read from the file that was open already
C9_OpenedBeforeReclaimed ==
    [][ /\ (archive # Missing /\ archive' = Missing /\ resp'.status = 200) =>
              (handle' = archive /\ sent' = Missing /\ pc' = "returned")
        /\ (pc = "returned" /\ resp.status = 200 /\ pc' = "sent") =>
              (sent' = handle /\ sent' \subseteq Files /\ sent' # {}
               /\ archive = Missing /\ ~tempDir)
      ]_vars

\* C9 witness: the client received the archive of a successful request
C9_Witness ==
    /\ pc = "sent"
    /\ resp.status = 200
    /\ sent = Files
    /\ archive = Missing

\* C10: for a request answered by 400 no temporary directory was created and no
\* child was started
C10_ValidationBeforeResources ==
    (Returned /\ resp.status = 400) =>
        (~tempCreated /\ ~spawned /\ ~tempDir /\ command = <<>> /\ child = "none")

\* C10 witness: a request rejected at the last validation step has returned
C10_Witness ==
    /\ pc = "returned"
    /\ resp.status = 400
    /\ resp.error = "Invalid combination: "
    /\ ~tempCreated

============================================================================
